---- MODULE Spec2Model ----
(***************************************************************************)
(* Water + Electrolyte Balance Tool (src/app.js).                          *)
(*                                                                         *)
(* The calculation engine (Calculator.calculateWater and                   *)
(* Calculator.calculateElectrolytes), the localStorage manager and the     *)
(* daily intake tracker of UIManager, as a state machine.                  *)
(*                                                                         *)
(* Numbers.  The calculators work on JavaScript doubles.  Every multiplier *)
(* of the source is a decimal with one or two fractional digits, so each   *)
(* intermediate value is an exact rational with a fixed denominator; the   *)
(* model keeps the numerator (WaterDen for water, ElectrolyteDen for the   *)
(* electrolytes) and rounds once, as Math.round does (half up).  Weights   *)
(* are in tenths of a kilogram.  A value that can be NaN in the source     *)
(* (the result of parseInt) is a tagged record: Num(n), NaN, or Null, the  *)
(* value JSON.stringify writes for NaN.                                    *)
(***************************************************************************)
EXTENDS Integers, Sequences, FiniteSets, TLC

VARIABLES
    pc,         \* which specification's step comes next ("input", "done", "app")
    params,     \* the argument of the calculator under SpecWater / SpecElectrolytes
    water,      \* the result of calculateWater: #water-amount and #target-intake
    electrolytes, \* the result of calculateElectrolytes, as displayResults shows it
    form,       \* the fields of the calculate form under SpecCalculate
    avail,      \* whether localStorage accepts writes (Utils.isLocalStorageAvailable)
    quota,      \* the room localStorage has for the document, in half intake entries
    tz,         \* the offset of the local time zone from UTC, in ticks
    ls,         \* localStorage[CONFIG.STORAGE_KEY]: NoItem or the parsed JSON text
    lastActive, \* localStorage['last_active_date']: NoDate or a date
    now,        \* the wall clock, in ticks
    rows,       \* the rendered #intake-list: one [index, amount, time] per row
    rowsDate,   \* ghost: the date whose ledger rows was rendered from
    last        \* ghost: the handler that ran last and what it reported

vars == <<pc, params, water, electrolytes, form, avail, quota, tz, ls, lastActive,
          now, rows, rowsDate, last>>

----------------------------------------------------------------------------
(* JavaScript numbers that may be NaN, and JSON null *)

Num(n) == [t |-> "num", v |-> n]
NaN == [t |-> "NaN", v |-> 0]
Null == [t |-> "null", v |-> 0]
IsNum(x) == x.t = "num"

----------------------------------------------------------------------------
(* CONFIG *)

BASE_WATER_PER_KG == 35
EXERCISE_WATER_PER_HOUR == 500
MIN_WATER == 1500
MAX_WATER == 10000
DANGER_WATER == 5000
SODIUM_DANGER == 5000
POTASSIUM_DANGER == 6000
MAGNESIUM_MALE == 420
MAGNESIUM_FEMALE == 320
MAGNESIUM_DANGER == 700
CALCIUM_YOUNG == 1000
CALCIUM_SENIOR == 1200
CALCIUM_DANGER == 2500

----------------------------------------------------------------------------
(* Calculator.calculateWater *)

\* waterRequirement is held as numerator / WaterDen
WaterDen == 10 * 10 * 30

\* Math.round of numerator / den: floor(x + 1/2)
MathRound(numerator, den) == (2 * numerator + den) \div (2 * den)

Min(a, b) == IF a <= b THEN a ELSE b
Max(a, b) == IF a >= b THEN a ELSE b

\* activityMultipliers[activityLevel] || 1.0, times 10
ActivityMultiplier10(activityLevel) ==
    CASE activityLevel = "sedentary" -> 10
      [] activityLevel = "light" -> 11
      [] activityLevel = "moderate" -> 12
      [] activityLevel = "active" -> 13
      [] activityLevel = "athlete" -> 14
      [] OTHER -> 10

\* intensityMultipliers[exerciseIntensity] || 1.0 of calculateWater, times 10
WaterIntensityMultiplier10(exerciseIntensity) ==
    CASE exerciseIntensity = "low" -> 8
      [] exerciseIntensity = "medium" -> 10
      [] exerciseIntensity = "high" -> 13
      [] OTHER -> 10

\* climateMultipliers[climate] || 1.0 of calculateWater, times 10
WaterClimateMultiplier10(climate) ==
    CASE climate = "cool" -> 10
      [] climate = "moderate" -> 10
      [] climate = "hot" -> 12
      [] climate = "very-hot" -> 14
      [] OTHER -> 10

\* altitudeAdditions[altitude] || 0
AltitudeAddition(altitude) ==
    CASE altitude = "sea-level" -> 0
      [] altitude = "moderate" -> 500
      [] altitude = "high" -> 1000
      [] OTHER -> 0

\* faulty: the climate multiplier applied after the altitude addend
ApplyClimateAfterAltitude(w0, exerciseWater, p) ==
    ((w0 + exerciseWater + AltitudeAddition(p.altitude) * WaterDen) \div 10)
        * WaterClimateMultiplier10(p.climate)

\* lines 787-806: add the exercise water, scale by the climate, add the altitude
ExerciseClimateAltitude(w0, exerciseWater, p) ==
    ((w0 + exerciseWater) \div 10) * WaterClimateMultiplier10(p.climate)
        + AltitudeAddition(p.altitude) * WaterDen

\* faulty: the kidney cap applied before the health addends
KidneyCapBeforeAdditions(w, p) ==
    LET capped == IF p.kidneyDisease THEN Min(w, 2000 * WaterDen) ELSE w
    IN  capped + (IF p.pregnant THEN 300 * WaterDen ELSE 0)
               + (IF p.breastfeeding THEN 700 * WaterDen ELSE 0)
               + (IF p.illness THEN 1000 * WaterDen ELSE 0)

\* lines 808-814: the health conditions, the kidney cap last
HealthConditions(w, p) ==
    LET w1 == IF p.pregnant THEN w + 300 * WaterDen ELSE w
        w2 == IF p.breastfeeding THEN w1 + 700 * WaterDen ELSE w1
        w3 == IF p.illness THEN w2 + 1000 * WaterDen ELSE w2
    IN  IF p.kidneyDisease THEN Min(w3, 2000 * WaterDen) ELSE w3

\* faulty: the upper limit left out
SafetyLimitsNoMax(w) == Max(MIN_WATER * WaterDen, w)

\* lines 816-818: Math.max(MIN_WATER, .) then Math.min(MAX_WATER, .)
SafetyLimits(w) ==
    Min(MAX_WATER * WaterDen, Max(MIN_WATER * WaterDen, w))

\* p.weight is in tenths of a kilogram, p.exerciseDuration in minutes
calculateWater(p) ==
    LET base == p.weight * BASE_WATER_PER_KG * (WaterDen \div 10)
        w0 == (base \div 10) * ActivityMultiplier10(p.activityLevel)
        \* exerciseHours * EXERCISE_WATER_PER_HOUR * multiplier
        exerciseWater ==
            p.exerciseDuration * EXERCISE_WATER_PER_HOUR
                * WaterIntensityMultiplier10(p.exerciseIntensity) * (WaterDen \div 600)
        w1 == ExerciseClimateAltitude(w0, exerciseWater, p)
        w2 == HealthConditions(w1, p)
    IN  MathRound(SafetyLimits(w2), WaterDen)

----------------------------------------------------------------------------
(* Calculator.calculateElectrolytes *)

\* sodium and potassium are held as numerator / ElectrolyteDen
ElectrolyteDen == 100 * 3

\* intensityMultipliers[exerciseIntensity] || 1.0 of calculateElectrolytes, times 2
SweatMultiplier2(exerciseIntensity) ==
    CASE exerciseIntensity = "low" -> 1
      [] exerciseIntensity = "medium" -> 2
      [] exerciseIntensity = "high" -> 3
      [] OTHER -> 2

\* faulty: the climate multipliers of calculateWater used for the electrolytes
ElectrolyteClimateAsWater(climate) ==
    CASE climate = "cool" -> 100
      [] climate = "moderate" -> 100
      [] climate = "hot" -> 120
      [] climate = "very-hot" -> 140
      [] OTHER -> 100

\* climateMultipliers[climate] || 1.0 of calculateElectrolytes, times 100
ElectrolyteClimateMultiplier100(climate) ==
    CASE climate = "cool" -> 100
      [] climate = "moderate" -> 100
      [] climate = "hot" -> 115
      [] climate = "very-hot" -> 130
      [] OTHER -> 100

\* faulty: capped at the danger level itself
CapAtDangerItself(x, danger) == Min(x, danger * ElectrolyteDen)

\* lines 864-867: Math.min(x, danger - 100)
CapAtDanger(x, danger) == Min(x, (danger - 100) * ElectrolyteDen)

\* p.age is a JavaScript number (Num(n) or NaN): NaN >= 65 is false
calculateElectrolytes(p) ==
    LET sodium0 == 2000 * ElectrolyteDen
        potassium0 == (IF p.gender = "male" THEN 3400 ELSE 2600) * ElectrolyteDen
        magnesium == (IF p.gender = "male" THEN MAGNESIUM_MALE ELSE MAGNESIUM_FEMALE)
                        * ElectrolyteDen
        calcium == (IF IsNum(p.age) /\ p.age.v >= 65 THEN CALCIUM_SENIOR
                    ELSE CALCIUM_YOUNG) * ElectrolyteDen
        sweat2 == SweatMultiplier2(p.exerciseIntensity)
        \* exerciseHours * 1000 * sweatMultiplier, exerciseHours * 200 * sweatMultiplier
        sodium1 == sodium0
            + p.exerciseDuration * sweat2 * ((1000 * ElectrolyteDen) \div 120)
        potassium1 == potassium0
            + p.exerciseDuration * sweat2 * ((200 * ElectrolyteDen) \div 120)
        climate100 == ElectrolyteClimateMultiplier100(p.climate)
        sodium2 == (sodium1 \div 100) * climate100
        potassium2 == (potassium1 \div 100) * climate100
    IN  [sodium |-> MathRound(CapAtDanger(sodium2, SODIUM_DANGER), ElectrolyteDen),
         potassium |-> MathRound(CapAtDanger(potassium2, POTASSIUM_DANGER), ElectrolyteDen),
         magnesium |-> MathRound(CapAtDanger(magnesium, MAGNESIUM_DANGER), ElectrolyteDen),
         calcium |-> MathRound(CapAtDanger(calcium, CALCIUM_DANGER), ElectrolyteDen)]

----------------------------------------------------------------------------
(* The inputs of the calculators *)

ActivityLevels == {"sedentary", "light", "moderate", "active", "athlete"}
Intensities == {"low", "medium", "high"}
Climates == {"cool", "moderate", "hot", "very-hot"}
Altitudes == {"sea-level", "moderate", "high"}
\* a value none of the lookup tables has
Unrecognized == "unrecognized"

\* a profile as gatherFormData returns it: 70 kg, 30 years, male, sedentary, and the
\* exercise, climate, altitude and health fields as clearForm leaves them
DefaultParams ==
    [weight |-> 700, age |-> Num(30), gender |-> "male",
     activityLevel |-> "sedentary", exerciseDuration |-> 0,
     exerciseIntensity |-> "medium", climate |-> "moderate",
     altitude |-> "sea-level", pregnant |-> FALSE, breastfeeding |-> FALSE,
     illness |-> FALSE, kidneyDisease |-> FALSE]

\* weights in tenths of a kilogram, within FormValidator.validateWeight's 20..300 kg
Weights == {200, 205, 700, 1361, 3000}
\* exercise minutes within FormValidator.validateExerciseDuration's 0..1440
ExerciseMinutes == {0, 1, 61, 90, 1440}
Ages == {Num(1), Num(11), Num(12), Num(64), Num(65), Num(120), NaN}
Genders == {"male", "female", ""}

WaterInputs ==
    { [DefaultParams EXCEPT !.weight = w, !.activityLevel = a,
            !.exerciseDuration = m, !.exerciseIntensity = i, !.climate = c,
            !.altitude = h, !.pregnant = f[1], !.breastfeeding = f[2],
            !.illness = f[3], !.kidneyDisease = f[4]] :
        w \in Weights, a \in ActivityLevels \cup {Unrecognized},
        m \in ExerciseMinutes, i \in Intensities \cup {Unrecognized},
        c \in Climates \cup {Unrecognized}, h \in Altitudes \cup {Unrecognized},
        f \in [1..4 -> BOOLEAN] }

ElectrolyteInputs ==
    { [DefaultParams EXCEPT !.gender = g, !.age = y, !.exerciseDuration = m,
            !.exerciseIntensity = i, !.climate = c] :
        g \in Genders, y \in Ages, m \in ExerciseMinutes \cup {45, 173, 174, 600},
        i \in Intensities \cup {Unrecognized}, c \in Climates \cup {Unrecognized} }

NoElectrolytes == [sodium |-> 0, potassium |-> 0, magnesium |-> 0, calcium |-> 0]

----------------------------------------------------------------------------
(* The clock, and the values held in localStorage *)

\* the clock runs from 0 to MaxNow ticks, TicksPerDay ticks to a date
MaxNow == 2
TicksPerDay == 2
\* localStorage refuses (QuotaExceededError) a document of more intake entries
StorageQuota == 2
\* the other items of the origin leave no room for the document, not even for the
\* one getDefaultData returns, while the short test item of isLocalStorageAvailable
\* still fits
NoRoom == 0 - 1
\* the room for a document of that many intake entries with its goals: an entry
\* counts 2, the goals 1, the profile is taken to fit
Room(entries) == 2 * entries + 1
\* the other items of the origin leave room for the default document and a profile,
\* but for neither the goals nor an entry
NoRoomForGoals == Room(0) - 1
\* the calls of clearOldData the call stack has room for
MaxStack == 3

\* the 30 of cutoffDate.setDate(cutoffDate.getDate() - 30)
RETENTION_DAYS == 30
\* a date before the cutoff of every date of the session
OldDate == 0 - (RETENTION_DAYS + 1)

\* the dates a ledger can be keyed by: the dates of the session and OldDate
Dates == {OldDate} \cup (0 .. (MaxNow \div TicksPerDay))
DateOf(t) == t \div TicksPerDay
\* the offsets of the time zones: half a day behind UTC, UTC, half a day ahead
Offsets == {0 - 1, 0, 1}

\* Utils.getDateString: the date of new Date().toISOString()
getDateString == DateOf(now)
\* Utils.getTimestamp
getTimestamp == now
\* Utils.getTimeString: toLocaleTimeString, the local time of day
getTimeString == (now + tz) % TicksPerDay

\* {} (userProfile and dailyGoals of getDefaultData)
EmptyObject == [empty |-> TRUE]
\* no property of that name in data.tracking
Absent == [absent |-> TRUE]
\* localStorage.getItem returns null
NoItem == [item |-> FALSE]
\* an item JSON.parse throws on
Unparseable == [text |-> "{"]
\* the item "null": JSON.parse returns null
JsonNull == [text |-> "null"]
\* the item '{"userProfile":{},"dailyGoals":{}}': an object without tracking
ObjectWithoutTracking == [userProfile |-> EmptyObject, dailyGoals |-> EmptyObject]
NoDate == -1
\* saveData has not succeeded
NoSave == [saved |-> FALSE]

\* StorageManager.getDefaultData
getDefaultData ==
    [userProfile |-> EmptyObject, dailyGoals |-> EmptyObject,
     tracking |-> [d \in Dates |-> Absent]]

\* JSON.stringify of a number: NaN is written as null
StringifyNumber(x) == IF x.t = "NaN" THEN Null ELSE x

StringifyLedger(ledger) ==
    IF ledger = Absent THEN Absent
    ELSE [waterIntake |->
            [k \in 1..Len(ledger.waterIntake) |->
                [ledger.waterIntake[k] EXCEPT
                    !.amount = StringifyNumber(ledger.waterIntake[k].amount)]]]

\* JSON.stringify(data) followed by JSON.parse: the document localStorage holds,
\* as JSON.parse returns it
JSONStringify(data) ==
    [userProfile |->
        IF data.userProfile = EmptyObject THEN EmptyObject
        ELSE [data.userProfile EXCEPT !.age = StringifyNumber(data.userProfile.age)],
     dailyGoals |-> data.dailyGoals]
    @@ (IF "tracking" \in DOMAIN data
        THEN [tracking |-> [d \in Dates |-> StringifyLedger(data.tracking[d])]]
        ELSE <<>>)

RECURSIVE SumLen(_, _)
SumLen(tracking, ds) ==
    IF ds = {} THEN 0
    ELSE LET d == CHOOSE x \in ds : TRUE
         IN  (IF tracking[d] = Absent THEN 0 ELSE Len(tracking[d].waterIntake))
                + SumLen(tracking, ds \ {d})

\* the length of JSON.stringify(doc), in half intake entries
Size(doc) ==
    2 * (IF "tracking" \in DOMAIN doc THEN SumLen(doc.tracking, Dates) ELSE 0)
        + (IF doc.dailyGoals = EmptyObject THEN 0 ELSE 1)

\* localStorage.setItem throws QuotaExceededError for a document over the quota
OverQuota(doc) == Size(doc) > quota

\* StorageManager.getData on the stored item `item`
getDataOf(item) ==
    IF ~avail THEN getDefaultData
    ELSE IF item = NoItem THEN getDefaultData
    ELSE IF item = Unparseable THEN getDefaultData  \* JSON.parse throws: the catch
    ELSE item

getData == getDataOf(ls)

\* faulty: the sweep keeps today's ledger only
PrunedToToday(tracking) ==
    [d \in Dates |-> IF d >= getDateString THEN tracking[d] ELSE Absent]

\* the tracking clearOldData keeps: date >= cutoffString
PrunedTracking(tracking) ==
    [d \in Dates |->
        IF d >= getDateString - RETENTION_DAYS THEN tracking[d] ELSE Absent]

\* StorageManager.saveData(data) on the stored item `item`:
\*   ok        the value returned
\*   item      the item stored afterwards
\*   saved     the last argument a successful saveData was called with (clearOldData
\*             calls saveData too), NoSave if none
\*   calls     how often clearOldData was called
\*   overflow  the stack overflowed
\* On QuotaExceededError saveData calls clearOldData, which calls saveData with the
\* pruned stored document.  If that write exceeds the quota too, the inner saveData
\* calls clearOldData again, which reads the same stored document and calls
\* saveData with the same argument: the two call each other until the stack has
\* no room left.  Otherwise the pruned document is stored, and line 140 writes the
\* same data again, which is as large as it was.
saveDataOn(item, data) ==
    IF ~avail
    THEN [ok |-> FALSE, item |-> item, saved |-> NoSave, calls |-> 0, overflow |-> FALSE]
    ELSE IF ~OverQuota(JSONStringify(data))
    THEN [ok |-> TRUE, item |-> JSONStringify(data), saved |-> data, calls |-> 0,
          overflow |-> FALSE]
    ELSE LET old == getDataOf(item)
             pruned == [old EXCEPT !.tracking = PrunedTracking(old.tracking)]
         IN  IF OverQuota(JSONStringify(pruned))
             THEN [ok |-> FALSE, item |-> item, saved |-> NoSave, calls |-> MaxStack,
                   overflow |-> TRUE]
             ELSE [ok |-> FALSE, item |-> JSONStringify(pruned), saved |-> pruned,
                   calls |-> 1, overflow |-> FALSE]

\* StorageManager.getTodayTracking on the stored item `item`
getTodayTrackingOf(item) ==
    LET data == getDataOf(item)
    IN  IF data.tracking[getDateString] = Absent THEN [waterIntake |-> <<>>]
        ELSE data.tracking[getDateString]

getTodayTracking == getTodayTrackingOf(ls)

\* faulty: an emptied ledger is removed instead of stored
SaveTodayTrackingDroppingEmpty(trackingData) ==
    LET data == getData
        ledger == IF trackingData.waterIntake = <<>> THEN Absent ELSE trackingData
    IN  saveDataOn(ls, [data EXCEPT !.tracking[getDateString] = ledger])

\* StorageManager.saveTodayTracking
saveTodayTracking(trackingData) ==
    LET data == getData
    IN  saveDataOn(ls, [data EXCEPT !.tracking[getDateString] = trackingData])

\* faulty: today's ledger emptied, its key kept
ResetKeepingEmptyLedger ==
    LET data == getData
    IN  saveDataOn(ls, [data EXCEPT !.tracking[getDateString] = [waterIntake |-> <<>>]])

\* StorageManager.resetTodayTracking
resetTodayTracking ==
    LET data == getData
    IN  saveDataOn(ls, [data EXCEPT !.tracking[getDateString] = Absent])

\* StorageManager.saveProfile on the stored item `item`
saveProfileOn(item, profile) ==
    LET data == getDataOf(item)
    IN  saveDataOn(item,
            [data EXCEPT !.userProfile =
                [weight |-> profile.weight, age |-> profile.age,
                 gender |-> profile.gender, activityLevel |-> profile.activityLevel,
                 exerciseDuration |-> profile.exerciseDuration,
                 exerciseIntensity |-> profile.exerciseIntensity,
                 climate |-> profile.climate, altitude |-> profile.altitude,
                 pregnant |-> profile.pregnant, breastfeeding |-> profile.breastfeeding,
                 illness |-> profile.illness, kidneyDisease |-> profile.kidneyDisease,
                 lastUpdated |-> getTimestamp]])

\* StorageManager.saveGoals on the stored item `item`
saveGoalsOn(item, goals) ==
    LET data == getDataOf(item)
    IN  saveDataOn(item, [data EXCEPT !.dailyGoals = goals])

----------------------------------------------------------------------------
(* UIManager: the tracker *)

\* sum + entry.amount: null counts as 0, NaN makes the sum NaN
JsAdd(sum, amount) ==
    IF sum.t = "NaN" \/ amount.t = "NaN" THEN NaN
    ELSE Num(sum.v + (IF amount.t = "num" THEN amount.v ELSE 0))

RECURSIVE ReduceAmounts(_, _)
ReduceAmounts(waterIntake, sum) ==
    IF waterIntake = <<>> THEN sum
    ELSE ReduceAmounts(Tail(waterIntake), JsAdd(sum, Head(waterIntake).amount))

\* waterIntake.reduce((sum, entry) => sum + entry.amount, 0)
totalIntake(waterIntake) == ReduceAmounts(waterIntake, Num(0))

\* UIManager.getCurrentGoal on the stored item `item`: data.dailyGoals?.water || 0
getCurrentGoalOf(item) ==
    LET data == getDataOf(item)
    IN  IF data.dailyGoals = EmptyObject THEN 0 ELSE data.dailyGoals.water

getCurrentGoal == getCurrentGoalOf(ls)

\* the rows sorted so far, with row k of the ledger put in: behind every row whose
\* timestamp is not older (Array.prototype.sort is stable)
InsertNewestFirst(sorted, waterIntake, k) ==
    LET behind == { j \in 1..Len(sorted) :
                        waterIntake[sorted[j]].timestamp >= waterIntake[k].timestamp }
        n == Cardinality(behind)
    IN  SubSeq(sorted, 1, n) \o <<k>> \o SubSeq(sorted, n + 1, Len(sorted))

RECURSIVE SortNewestFirst(_, _)
\* [...waterIntake].sort((a, b) => new Date(b.timestamp) - new Date(a.timestamp)),
\* as the positions (from 1) of the entries in waterIntake
SortNewestFirst(waterIntake, k) ==
    IF k = 0 THEN <<>>
    ELSE InsertNewestFirst(SortNewestFirst(waterIntake, k - 1), waterIntake, k)

\* waterIntake.indexOf(entry) for the entry at position k (from 1): indexOf compares
\* object identities, and each entry of the array is an object of its own
IndexOfEntry(waterIntake, k) == k - 1

\* UIManager.updateIntakeList: the rows of #intake-list, each with the data-index of
\* its delete button
updateIntakeList(waterIntake) ==
    LET sorted == SortNewestFirst(waterIntake, Len(waterIntake))
    IN  [r \in 1..Len(sorted) |->
            [index |-> IndexOfEntry(waterIntake, sorted[r]),
             amount |-> waterIntake[sorted[r]].amount,
             time |-> waterIntake[sorted[r]].time]]

\* UIManager.updateTrackingUI: whether the goal toast is shown
\* (totalIntake >= goal && goal > 0; NaN >= goal is false)
GoalReached(waterIntake, goal) ==
    /\ IsNum(totalIntake(waterIntake))
    /\ totalIntake(waterIntake).v >= goal
    /\ goal > 0

\* a percentage as a fraction n / d
Percent(n, d) == [n |-> n, d |-> d]

\* line 1377: goal > 0 ? Math.min((totalIntake / goal) * 100, 100) : 0
progressPercentage(total, goal) ==
    IF goal > 0
    THEN IF IsNum(total) THEN Percent(Min(total.v * 100, 100 * goal), goal) ELSE NaN
    ELSE Percent(0, 1)

\* UIManager.validateIntakeAmount
validateIntakeAmount(amount) ==
    /\ ~(amount.t = "NaN" \/ amount.v <= 0)
    /\ ~(amount.v > 5000)

\* todayData.waterIntake.splice(index, 1), index counted from 0
Splice(waterIntake, index) ==
    IF index < Len(waterIntake)
    THEN SubSeq(waterIntake, 1, index) \o SubSeq(waterIntake, index + 2, Len(waterIntake))
    ELSE waterIntake

\* faulty: the entry put first (unshift)
PushFront(waterIntake, entry) == <<entry>> \o waterIntake

\* todayData.waterIntake.push(intakeEntry)
Push(waterIntake, entry) == Append(waterIntake, entry)

----------------------------------------------------------------------------
(* The calculate form *)

\* What the form holds when Calculate is clicked.  weight is parseFloat of the weight
\* field in tenths of a kilogram (the kg unit button active); ageFloat and ageInt are
\* parseFloat and parseInt of the age field: validateForm reads the first,
\* gatherFormData the second, and they differ on an input such as ".5e1".
Form(weight, ageFloat, ageInt, kidneyDisease) ==
    [weight |-> weight, ageFloat |-> ageFloat, ageInt |-> ageInt, gender |-> "male",
     activityLevel |-> "sedentary", exerciseDuration |-> 0,
     exerciseIntensity |-> "medium", climate |-> "moderate",
     altitude |-> "sea-level", pregnant |-> FALSE, breastfeeding |-> FALSE,
     illness |-> FALSE, kidneyDisease |-> kidneyDisease]

Forms ==
    { Form(Num(700), Num(30), Num(30), FALSE),     \* 70 kg, age "30"
      Form(Num(700), Num(30), Num(30), TRUE),      \* 70 kg, age "30", kidney disease
      Form(Num(700), Num(5), NaN, FALSE),          \* age ".5e1"
      Form(Num(100), Num(30), Num(30), FALSE) }    \* 10 kg: below the minimum

\* the age field: <<parseFloat, parseInt>> of its text
AgeFields ==
    { <<Num(30), Num(30)>>,     \* "30"
      <<Num(11), Num(11)>>,     \* "11"
      <<Num(12), Num(12)>>,     \* "12"
      <<Num(5), NaN>>,          \* ".5e1"
      <<Num(5), Num(0)>>,       \* "0.5e1"
      <<NaN, NaN>>,             \* ""
      <<Num(121), Num(121)>> }  \* "121"

\* parseInt(value) || 0 of the exercise-duration field: "0", "61", "-30", "2000"
ExerciseFields == {0, 61, 0 - 30, 2000}

\* the forms Calculate is clicked on under SpecCalculate; "" is a select left empty
FormInputs ==
    { [weight |-> w, ageFloat |-> y[1], ageInt |-> y[2], gender |-> g,
       activityLevel |-> a, exerciseDuration |-> m, exerciseIntensity |-> i,
       climate |-> c, altitude |-> "sea-level", pregnant |-> f[1],
       breastfeeding |-> f[2], illness |-> f[3], kidneyDisease |-> f[4]] :
        w \in {Num(700), Num(100)}, y \in AgeFields, g \in {"male", ""},
        a \in {"sedentary", "active", ""}, m \in ExerciseFields,
        i \in {"medium", "high"}, c \in {"moderate", ""},
        f \in [1..4 -> BOOLEAN] }

\* Utils.validateNumber
validateNumber(num, min, max) ==
    /\ num.t # "NaN"
    /\ ~(num.v < min)
    /\ ~(num.v > max)

\* faulty: a form with a warning of validateConsistency is refused
ValidateFormAndConsistency(f) ==
    /\ validateNumber(f.weight, 20 * 10, 300 * 10)
    /\ validateNumber(f.ageFloat, 1, 120)
    /\ f.gender # ""
    /\ f.activityLevel # ""
    /\ f.climate # ""
    /\ ~(f.activityLevel = "sedentary" /\ f.exerciseDuration > 60)
    /\ ~(f.ageInt.t = "num" /\ f.ageInt.v < 12 /\ f.exerciseIntensity = "high")
    /\ Cardinality({ k \in 1..4 :
            <<f.pregnant, f.breastfeeding, f.illness, f.kidneyDisease>>[k] }) < 2

\* faulty: the weight is not looked at
ValidateFormButWeight(f) ==
    /\ validateNumber(f.ageFloat, 1, 120)
    /\ f.gender # ""
    /\ f.activityLevel # ""
    /\ f.climate # ""

\* FormValidator.validateForm, the kg unit active
validateForm(f) ==
    /\ validateNumber(f.weight, 20 * 10, 300 * 10)
    /\ validateNumber(f.ageFloat, 1, 120)
    /\ f.gender # ""
    /\ f.activityLevel # ""
    /\ f.climate # ""

\* UIManager.gatherFormData
gatherFormData(f) ==
    [weight |-> f.weight.v, age |-> f.ageInt, gender |-> f.gender,
     activityLevel |-> f.activityLevel, exerciseDuration |-> f.exerciseDuration,
     exerciseIntensity |-> f.exerciseIntensity, climate |-> f.climate,
     altitude |-> f.altitude, pregnant |-> f.pregnant,
     breastfeeding |-> f.breastfeeding, illness |-> f.illness,
     kidneyDisease |-> f.kidneyDisease]

----------------------------------------------------------------------------
(* Calculator.validateConsistency *)

\* params.activityLevel === 'sedentary' && params.exerciseDuration > 60
ActivityMismatch(p) == p.activityLevel = "sedentary" /\ p.exerciseDuration > 60

\* params.age < 12 && params.exerciseIntensity === 'high'; NaN < 12 is false
ChildSupervision(p) == IsNum(p.age) /\ p.age.v < 12 /\ p.exerciseIntensity = "high"

\* faulty: three conditions asked for
ThreeConditions(p) ==
    Cardinality({ k \in 1..4 :
        <<p.pregnant, p.breastfeeding, p.illness, p.kidneyDisease>>[k] }) >= 3

\* [pregnant, breastfeeding, illness, kidneyDisease].filter(Boolean).length >= 2
MultiCondition(p) ==
    Cardinality({ k \in 1..4 :
        <<p.pregnant, p.breastfeeding, p.illness, p.kidneyDisease>>[k] }) >= 2

\* the warnings, in the order they are pushed
validateConsistency(p) ==
    (IF ActivityMismatch(p) THEN <<"activity-mismatch">> ELSE <<>>)
        \o (IF ChildSupervision(p) THEN <<"child-supervision">> ELSE <<>>)
        \o (IF MultiCondition(p) THEN <<"multi-condition">> ELSE <<>>)

----------------------------------------------------------------------------
(* The handlers *)

\* parseInt(intakeInput.value) of the manual field
ManualAmounts == {Num(1000), Num(0), Num(5001), NaN}
\* parseInt(btn.dataset.amount) of a quick-add button
QuickAmounts == {Num(1000), Num(6000)}

\* ghost: whether getData, called right after a saveData that succeeded, returns
\* what that saveData was given ("none": no saveData succeeded)
ReadBack(r) ==
    IF r.saved = NoSave THEN "none"
    ELSE IF getDataOf(r.item) = r.saved THEN "same"
    ELSE "differs"

\* the read-backs of two saves in a row
ReadBack2(r1, r2) ==
    IF "differs" \in {ReadBack(r1), ReadBack(r2)} THEN "differs"
    ELSE IF "same" \in {ReadBack(r1), ReadBack(r2)} THEN "same"
    ELSE "none"

\* ghost: what a handler's call of saveData did: the value returned, the read-back,
\* the calls of clearOldData, and whether the stack overflow left saveData as an
\* exception
SaveReport(r, threw) ==
    [ok |-> r.ok /\ ~threw, readBack |-> ReadBack(r), clearOldDataCalls |-> r.calls,
     threw |-> threw]

\* two calls in a row
SaveReport2(r1, r2, threw) ==
    [ok |-> r1.ok /\ r2.ok /\ ~threw, readBack |-> ReadBack2(r1, r2),
     clearOldDataCalls |-> Max(r1.calls, r2.calls), threw |-> threw]

\* no call of saveData
NoSaves == [ok |-> TRUE, readBack |-> "none", clearOldDataCalls |-> 0, threw |-> FALSE]

\* ghost: the handler that last got past its validation: its argument (the amount
\* of addIntake, the index of deleteIntake), what its saves did, the goal it gave to
\* updateTrackingUI (0 if it did not get there), whether the goal toast was shown,
\* and the warnings of validateConsistency
Report(op, arg, saves, goal, goalReached, warnings) ==
    [op |-> op, arg |-> arg, ok |-> saves.ok, readBack |-> saves.readBack,
     clearOldDataCalls |-> saves.clearOldDataCalls, threw |-> saves.threw,
     goal |-> goal, goalReached |-> goalReached, warnings |-> warnings]

\* ghost: the report of a handler that got to updateTrackingUI(todayData, goal),
\* with the percentage it showed
WithProgress(report, waterIntake) ==
    report @@ [progress |-> progressPercentage(totalIntake(waterIntake), report.goal)]

\* When the stack overflows, the RangeError is raised wherever the stack ends: inside
\* one of the try blocks (it is caught, and saveData returns false at every level) or
\* outside (it leaves saveData).  Both can happen.
Escapes(r) == IF r.overflow THEN BOOLEAN ELSE {FALSE}

CalcUnchanged == UNCHANGED <<pc, params, water, electrolytes>>

\* UIManager.addIntake(amount)
addIntake(amount) ==
    LET todayData == getTodayTracking
        intakeEntry == [amount |-> amount, time |-> getTimeString,
                        timestamp |-> getTimestamp]
        newData == [waterIntake |-> Push(todayData.waterIntake, intakeEntry)]
        r == saveTodayTracking(newData)
        goal == getCurrentGoalOf(r.item)
    IN  /\ ls' = r.item
        /\ \E threw \in Escapes(r) :
            IF threw
            THEN /\ UNCHANGED <<rows, rowsDate>>
                 /\ last' = Report("addIntake", amount, SaveReport(r, TRUE), 0, FALSE, <<>>)
            ELSE /\ rows' = updateIntakeList(newData.waterIntake)
                 /\ rowsDate' = getDateString
                 /\ last' = WithProgress(
                                Report("addIntake", amount, SaveReport(r, FALSE), goal,
                                    GoalReached(newData.waterIntake, goal), <<>>),
                                newData.waterIntake)
        /\ UNCHANGED <<form, avail, quota, tz, lastActive, now>>
        /\ CalcUnchanged

\* the click handler of #add-intake-btn
AddIntakeClick ==
    /\ pc = "app"
    /\ \E amount \in ManualAmounts :
        IF validateIntakeAmount(amount)
        THEN addIntake(amount)
        ELSE \* only a toast is shown
             UNCHANGED vars

\* the click handler of a .quick-btn
QuickAddClick ==
    /\ pc = "app"
    /\ \E amount \in QuickAmounts : addIntake(amount)

\* UIManager.deleteIntake(index)
deleteIntake(index) ==
    LET todayData == getTodayTracking
        newData == [waterIntake |-> Splice(todayData.waterIntake, index)]
        r == saveTodayTracking(newData)
        goal == getCurrentGoalOf(r.item)
    IN  /\ ls' = r.item
        /\ \E threw \in Escapes(r) :
            IF threw
            THEN /\ UNCHANGED <<rows, rowsDate>>
                 /\ last' = Report("deleteIntake", Num(index), SaveReport(r, TRUE), 0,
                                FALSE, <<>>)
            ELSE /\ rows' = updateIntakeList(newData.waterIntake)
                 /\ rowsDate' = getDateString
                 /\ last' = WithProgress(
                                Report("deleteIntake", Num(index), SaveReport(r, FALSE),
                                    goal, GoalReached(newData.waterIntake, goal), <<>>),
                                newData.waterIntake)
        /\ UNCHANGED <<form, avail, quota, tz, lastActive, now>>
        /\ CalcUnchanged

\* the click handler of a row's .delete-btn
DeleteClick ==
    /\ pc = "app"
    /\ \E row \in 1..Len(rows) : deleteIntake(rows[row].index)

\* the reset button, confirmed
ResetClick ==
    /\ pc = "app"
    /\ LET r == resetTodayTracking
           goal == getCurrentGoalOf(r.item)
       IN  /\ ls' = r.item
           /\ \E threw \in Escapes(r) :
               IF threw
               THEN /\ UNCHANGED <<rows, rowsDate>>
                    /\ last' = Report("resetToday", Num(0), SaveReport(r, TRUE), 0,
                                    FALSE, <<>>)
               ELSE /\ rows' = updateIntakeList(<<>>)
                    /\ rowsDate' = getDateString
                    /\ last' = WithProgress(
                                    Report("resetToday", Num(0), SaveReport(r, FALSE), goal,
                                        GoalReached(<<>>, goal), <<>>),
                                    <<>>)
    /\ UNCHANGED <<form, avail, quota, tz, lastActive, now>>
    /\ CalcUnchanged

\* UIManager.handleCalculate with the form holding f
handleCalculate(f) ==
    /\ IF ~validateForm(f)
       THEN \* only the field errors and a toast are shown
            UNCHANGED <<water, electrolytes, ls, rows, rowsDate, last>>
       ELSE LET p == gatherFormData(f)
                warnings == validateConsistency(p)
                waterRequirement == calculateWater(p)
                goals == [water |-> waterRequirement] @@ calculateElectrolytes(p)
                r1 == saveProfileOn(ls, p)
                r2 == saveGoalsOn(r1.item, goals)
                todayData == getTodayTrackingOf(r2.item)
            IN  \E threw1 \in Escapes(r1) :
                  IF threw1
                  THEN /\ ls' = r1.item
                       /\ last' = Report("calculate", Num(0), SaveReport(r1, TRUE), 0,
                                        FALSE, warnings)
                       /\ UNCHANGED <<water, electrolytes, rows, rowsDate>>
                  ELSE \E threw2 \in Escapes(r2) :
                    IF threw2
                    THEN /\ ls' = r2.item
                         /\ last' = Report("calculate", Num(0),
                                        SaveReport2(r1, r2, TRUE), 0, FALSE, warnings)
                         /\ UNCHANGED <<water, electrolytes, rows, rowsDate>>
                    ELSE /\ ls' = r2.item
                         \* displayResults
                         /\ water' = waterRequirement
                         /\ electrolytes' = calculateElectrolytes(p)
                         \* initializeTracking(waterRequirement)
                         /\ rows' = updateIntakeList(todayData.waterIntake)
                         /\ rowsDate' = getDateString
                         /\ last' = WithProgress(
                                        Report("calculate", Num(0),
                                            SaveReport2(r1, r2, FALSE), waterRequirement,
                                            GoalReached(todayData.waterIntake,
                                                        waterRequirement),
                                            warnings),
                                        todayData.waterIntake)
    /\ UNCHANGED <<params, form, avail, quota, tz, lastActive, now>>

\* the click handler of #calculate-btn
HandleCalculate ==
    /\ pc = "app"
    /\ \E f \in Forms : handleCalculate(f)
    /\ UNCHANGED pc

\* faulty: the entries of today's ledger reversed in place and stored
GenerateReportReversingLedger(item, loaded, renders) ==
    LET data == getDataOf(item)
        tracking == getTodayTrackingOf(item)
        reversed == [waterIntake |->
                        [k \in 1..Len(tracking.waterIntake) |->
                            tracking.waterIntake[Len(tracking.waterIntake) + 1 - k]]]
    IN  IF ~loaded \/ data.dailyGoals = EmptyObject
        THEN [outcome |-> "failed", entries |-> 0, item |-> item]
        ELSE [outcome |-> IF renders THEN "saved" ELSE "failed",
              entries |-> Len(tracking.waterIntake),
              item |-> saveDataOn(item,
                          [data EXCEPT !.tracking[getDateString] = reversed]).item]

\* ReportGenerator.generateReport on the stored item `item`, jsPDF loaded or not and
\* rendering the document or failing: what happened, and the item stored afterwards
generateReport(item, loaded, renders) ==
    LET data == getDataOf(item)
        goals == data.dailyGoals
        tracking == getTodayTrackingOf(item)
    IN  IF ~loaded THEN [outcome |-> "failed", entries |-> 0, item |-> item]
        ELSE IF goals = EmptyObject \/ goals.water = 0
        THEN [outcome |-> "refused", entries |-> 0, item |-> item]
        ELSE IF ~renders
        THEN [outcome |-> "failed", entries |-> Len(tracking.waterIntake), item |-> item]
        ELSE [outcome |-> "saved", entries |-> Len(tracking.waterIntake), item |-> item]

\* the click handler of #download-report-btn
DownloadReportClick ==
    /\ pc = "app"
    /\ \E loaded \in BOOLEAN, renders \in BOOLEAN :
        LET r == generateReport(ls, loaded, renders)
        IN  /\ ls' = r.item
            /\ last' = Report("report", Num(r.entries),
                            [NoSaves EXCEPT !.ok = (r.outcome = "saved")], 0, FALSE, <<>>)
    /\ UNCHANGED <<form, avail, quota, tz, lastActive, now, rows, rowsDate>>
    /\ CalcUnchanged

\* the visibilitychange handler, the page shown again
VisibilityResume ==
    /\ pc = "app"
    /\ IF ~avail
       THEN \* checkMidnightRollover: localStorage.setItem throws
            UNCHANGED <<lastActive, rows, rowsDate, last>>
       ELSE /\ lastActive' = getDateString
            /\ IF getCurrentGoal > 0
               THEN /\ rows' = updateIntakeList(getTodayTracking.waterIntake)
                    /\ rowsDate' = getDateString
                    /\ last' = WithProgress(
                                Report("resume", Num(0), NoSaves, getCurrentGoal,
                                    GoalReached(getTodayTracking.waterIntake,
                                                getCurrentGoal),
                                    <<>>),
                                getTodayTracking.waterIntake)
               ELSE /\ last' = Report("resume", Num(0), NoSaves, 0, FALSE, <<>>)
                    /\ UNCHANGED <<rows, rowsDate>>
    /\ UNCHANGED <<form, avail, quota, tz, ls, now>>
    /\ CalcUnchanged

\* time passes
Tick ==
    /\ pc = "app"
    /\ now < MaxNow
    /\ now' = now + 1
    /\ UNCHANGED <<form, avail, quota, tz, ls, lastActive, rows, rowsDate, last>>
    /\ CalcUnchanged

----------------------------------------------------------------------------
(* The specifications *)

\* the calculate form as clearForm leaves it
ClearedForm ==
    [weight |-> NaN, ageFloat |-> NaN, ageInt |-> NaN, gender |-> "",
     activityLevel |-> "", exerciseDuration |-> 0, exerciseIntensity |-> "medium",
     climate |-> "moderate", altitude |-> "sea-level", pregnant |-> FALSE,
     breastfeeding |-> FALSE, illness |-> FALSE, kidneyDisease |-> FALSE]

\* initializeApp has run: checkMidnightRollover has written last_active_date if
\* localStorage takes it, and nothing has been done yet
AppStarted ==
    /\ form = ClearedForm
    /\ lastActive = (IF avail THEN 0 ELSE NoDate)
    /\ now = 0
    /\ rows = <<>>
    /\ rowsDate = 0
    /\ last = Report("init", Num(0), [NoSaves EXCEPT !.ok = FALSE], 0, FALSE, <<>>)

\* a first visit, in the UTC time zone: localStorage is unavailable, or has the usual
\* room, or has no room for the document
AppInit ==
    /\ avail \in BOOLEAN
    /\ quota \in (IF avail THEN {Room(StorageQuota), NoRoom} ELSE {Room(StorageQuota)})
    /\ tz = 0
    /\ ls = NoItem
    /\ AppStarted

\* the page after initializeApp on a first visit
Init ==
    /\ pc = "app"
    /\ params = DefaultParams
    /\ water = 0
    /\ electrolytes = NoElectrolytes
    /\ AppInit

Next ==
    \/ HandleCalculate
    \/ AddIntakeClick
    \/ QuickAddClick
    \/ DeleteClick
    \/ ResetClick
    \/ VisibilityResume
    \/ Tick

Spec == Init /\ [][Next]_vars

AppUnchanged ==
    UNCHANGED <<form, avail, quota, tz, ls, lastActive, now, rows, rowsDate, last>>

\* calculateWater applied to one argument
InitWater ==
    /\ pc = "input"
    /\ params \in WaterInputs
    /\ water = 0
    /\ electrolytes = NoElectrolytes
    /\ AppInit
    /\ avail
    /\ quota = Room(StorageQuota)

CalculateWaterStep ==
    /\ pc = "input"
    /\ water' = calculateWater(params)
    /\ pc' = "done"
    /\ UNCHANGED <<params, electrolytes>>
    /\ AppUnchanged

SpecWater == InitWater /\ [][CalculateWaterStep]_vars

\* calculateElectrolytes applied to one argument
InitElectrolytes ==
    /\ pc = "input"
    /\ params \in ElectrolyteInputs
    /\ water = 0
    /\ electrolytes = NoElectrolytes
    /\ AppInit
    /\ avail
    /\ quota = Room(StorageQuota)

CalculateElectrolytesStep ==
    /\ pc = "input"
    /\ electrolytes' = calculateElectrolytes(params)
    /\ pc' = "done"
    /\ UNCHANGED <<params, water>>
    /\ AppUnchanged

SpecElectrolytes == InitElectrolytes /\ [][CalculateElectrolytesStep]_vars

\* the profile and the goals handleCalculate stores for the form f at the time t
ProfileOf(f, t) ==
    [weight |-> gatherFormData(f).weight, age |-> StringifyNumber(gatherFormData(f).age),
     gender |-> f.gender, activityLevel |-> f.activityLevel,
     exerciseDuration |-> f.exerciseDuration,
     exerciseIntensity |-> f.exerciseIntensity, climate |-> f.climate,
     altitude |-> f.altitude, pregnant |-> f.pregnant,
     breastfeeding |-> f.breastfeeding, illness |-> f.illness,
     kidneyDisease |-> f.kidneyDisease, lastUpdated |-> t]

GoalsOf(f) ==
    [water |-> calculateWater(gatherFormData(f))]
        @@ calculateElectrolytes(gatherFormData(f))

\* the entry addIntake(1000) makes at the time t
EntryAt(t) == [amount |-> Num(1000), time |-> t % TicksPerDay, timestamp |-> t]

\* what an earlier visit, more than 30 days ago, has left in localStorage: the
\* profile and the goals of a calculation and the ledger of that day
StoredEarlier ==
    [userProfile |-> ProfileOf(Form(Num(700), Num(30), Num(30), TRUE),
                               OldDate * TicksPerDay),
     dailyGoals |-> GoalsOf(Form(Num(700), Num(30), Num(30), TRUE)),
     tracking |-> [d \in Dates |->
        IF d = OldDate THEN [waterIntake |-> <<EntryAt(OldDate * TicksPerDay)>>]
        ELSE Absent]]

\* a later visit: initializeApp has run on what the earlier visit left, loadSavedData
\* showing the stored goals and today's (empty) list
InitReturning ==
    /\ pc = "app"
    /\ params = DefaultParams
    /\ water = StoredEarlier.dailyGoals.water
    /\ electrolytes = [k \in DOMAIN NoElectrolytes |-> StoredEarlier.dailyGoals[k]]
    /\ avail = TRUE
    /\ quota = Room(StorageQuota)
    /\ tz = 0
    /\ ls = StoredEarlier
    /\ AppStarted

SpecReturning == InitReturning /\ [][Next]_vars

\* a first visit in any of the time zones, localStorage working
InitZones ==
    /\ pc = "app"
    /\ params = DefaultParams
    /\ water = 0
    /\ electrolytes = NoElectrolytes
    /\ avail = TRUE
    /\ quota = Room(StorageQuota)
    /\ tz \in Offsets
    /\ ls = NoItem
    /\ AppStarted

SpecZones == InitZones /\ [][Next]_vars

\* Calculate clicked on one form, on a first visit or a later one
InitCalculate ==
    /\ pc = "form"
    /\ params = DefaultParams
    /\ water = 0
    /\ electrolytes = NoElectrolytes
    /\ form \in FormInputs
    /\ avail = TRUE
    /\ quota = Room(StorageQuota)
    /\ tz = 0
    /\ ls \in {NoItem, StoredEarlier}
    /\ lastActive = 0
    /\ now = 0
    /\ rows = <<>>
    /\ rowsDate = 0
    /\ last = Report("init", Num(0), [NoSaves EXCEPT !.ok = FALSE], 0, FALSE, <<>>)

\* the click handler of #calculate-btn has run on the form
CalculateClick ==
    /\ pc = "form"
    /\ handleCalculate(form)
    /\ pc' = "clicked"

SpecCalculate == InitCalculate /\ [][CalculateClick]_vars

\* the states handleCalculate and addIntake leave in localStorage
PersistedStates ==
    { [userProfile |-> pg[1], dailyGoals |-> pg[2],
       tracking |-> [d \in Dates |->
            IF d = OldDate THEN old ELSE IF d = 0 THEN today ELSE Absent]] :
        pg \in {<<EmptyObject, EmptyObject>>}
                \cup { <<ProfileOf(f, 0), GoalsOf(f)>> : f \in {g \in Forms : validateForm(g)} },
        old \in {Absent, [waterIntake |-> <<EntryAt(OldDate * TicksPerDay)>>]},
        today \in {Absent, [waterIntake |-> <<>>], [waterIntake |-> <<EntryAt(0)>>],
                   [waterIntake |-> <<EntryAt(0), EntryAt(1)>>]} }

\* Download Report clicked on any persisted state
InitReport ==
    /\ pc = "app"
    /\ params = DefaultParams
    /\ water = 0
    /\ electrolytes = NoElectrolytes
    /\ form = ClearedForm
    /\ avail = TRUE
    /\ quota = Room(StorageQuota)
    /\ tz = 0
    /\ ls \in {NoItem} \cup {d \in PersistedStates : ~OverQuota(d)}
    /\ lastActive = 0
    /\ now \in 0..MaxNow
    /\ rows = <<>>
    /\ rowsDate = 0
    /\ last = Report("init", Num(0), [NoSaves EXCEPT !.ok = FALSE], 0, FALSE, <<>>)

SpecReport == InitReport /\ [][DownloadReportClick]_vars

----------------------------------------------------------------------------
(* Properties of the calculators *)

\* C1: for a weight of 20..300 kg and any activity level, exercise minutes of
\* 0..1440, intensity, climate, altitude and health flags, calculateWater returns
\* an integer from 1500 to 10000
C1_WaterWithinLimits ==
    pc = "done" /\ params.weight \in 200..3000 /\ params.exerciseDuration \in 0..1440
        => water \in 1500..10000

\* C1: the heaviest profile in the hardest conditions is cut down to 10000
C1_Witness ==
    /\ pc = "done"
    /\ params.weight = 3000
    /\ params.exerciseDuration = 1440
    /\ params.climate = "very-hot"
    /\ ~params.kidneyDisease
    /\ water = 10000

\* C2: with kidney disease calculateWater returns at most 2000, whatever the other
\* inputs are: the cap comes after every multiplier and addend
C2_KidneyCap == pc = "done" /\ params.kidneyDisease => water <= 2000

\* C2: kidney disease together with every addend and the largest multipliers
C2_Witness ==
    /\ pc = "done"
    /\ params.kidneyDisease /\ params.pregnant /\ params.breastfeeding /\ params.illness
    /\ params.weight = 3000
    /\ params.altitude = "high"
    /\ params.climate = "very-hot"
    /\ water = 2000

\* C3: calculateElectrolytes returns sodium <= 4900, potassium <= 5900,
\* magnesium <= 600 and calcium <= 2400 for every gender, age, exercise and climate
C3_ElectrolytesBelowDanger ==
    pc = "done" =>
        /\ electrolytes.sodium <= 4900
        /\ electrolytes.potassium <= 5900
        /\ electrolytes.magnesium <= 600
        /\ electrolytes.calcium <= 2400

\* C3: a whole day of high-intensity exercise in a very hot climate, both caps met
C3_Witness ==
    /\ pc = "done"
    /\ params.exerciseDuration = 1440
    /\ params.exerciseIntensity = "high"
    /\ params.climate = "very-hot"
    /\ electrolytes.sodium = 4900
    /\ electrolytes.potassium = 5900

\* the reference formula of the water requirement, in units of 1/3000 ml
ReferenceWaterUnits(p) ==
    LET activity == CASE p.activityLevel = "light" -> 11
                      [] p.activityLevel = "moderate" -> 12
                      [] p.activityLevel = "active" -> 13
                      [] p.activityLevel = "athlete" -> 14
                      [] OTHER -> 10
        intensity == CASE p.exerciseIntensity = "low" -> 8
                       [] p.exerciseIntensity = "high" -> 13
                       [] OTHER -> 10
        climate == CASE p.climate = "hot" -> 12
                     [] p.climate = "very-hot" -> 14
                     [] OTHER -> 10
        altitude == CASE p.altitude = "moderate" -> 500
                      [] p.altitude = "high" -> 1000
                      [] OTHER -> 0
        flags == (IF p.pregnant THEN 300 ELSE 0) + (IF p.breastfeeding THEN 700 ELSE 0)
                    + (IF p.illness THEN 1000 ELSE 0)
        \* (weight * 35 * activity + minutes / 60 * 500 * intensity) * climate
        scaled == (p.weight * 35 * 3 * activity + p.exerciseDuration * 250 * intensity)
                    * climate
        adjusted == scaled + 3000 * (altitude + flags)
        capped == IF p.kidneyDisease /\ adjusted > 2000 * 3000 THEN 2000 * 3000
                  ELSE adjusted
    IN  IF capped < 1500 * 3000 THEN 1500 * 3000
        ELSE IF capped > 10000 * 3000 THEN 10000 * 3000
        ELSE capped

\* 70 kg, sedentary, no exercise, moderate climate, sea level, no flags
ExampleSedentary == DefaultParams
\* 70 kg, athlete, 90 minutes of high intensity, hot, high altitude, pregnant
ExampleAthlete ==
    [DefaultParams EXCEPT !.activityLevel = "athlete", !.exerciseDuration = 90,
        !.exerciseIntensity = "high", !.climate = "hot", !.altitude = "high",
        !.pregnant = TRUE]

\* C9: calculateWater is the reference formula in this order: weight * 35, times the
\* activity multiplier, plus the exercise water, times the climate multiplier, plus
\* the altitude addend, plus the health addends, the kidney cap, the clamp, rounded
\* to the nearest integer; the sedentary example gives 2450, the athlete one 6586
C9_ReferenceFormula ==
    pc = "done" =>
        /\ 2 * 3000 * water - 3000 <= 2 * ReferenceWaterUnits(params)
        /\ 2 * ReferenceWaterUnits(params) < 2 * 3000 * water + 3000
        /\ (params = ExampleSedentary => water = 2450)
        /\ (params = ExampleAthlete => water = 6586)

\* C9: the athlete example has been calculated
C9_Witness == pc = "done" /\ params = ExampleAthlete /\ water = 6586

----------------------------------------------------------------------------
(* Properties of the tracker *)

\* the entries stored for date d in the item `item`, none if the ledger is absent
StoredIntake(item, d) ==
    IF getDataOf(item).tracking[d] = Absent THEN <<>>
    ELSE getDataOf(item).tracking[d].waterIntake

\* getTotal on the item `item`: the sum of the amounts of today's ledger
getTotalOf(item) == totalIntake(getTodayTrackingOf(item).waterIntake)

\* C4: with the store available and the save succeeding, addIntake(a) with
\* 1 <= a <= 5000 appends exactly one entry of amount a to the end of today's ledger
\* (created if absent), keeps the entries before it, and getTotal right after it is
\* the previous total + a
C4_AddThenTotal ==
    [][ (last'.op = "addIntake" /\ now' = now /\ last'.ok
            /\ validateIntakeAmount(last'.arg))
        => /\ getDataOf(ls').tracking[getDateString] # Absent
           /\ StoredIntake(ls', getDateString)
                = Append(StoredIntake(ls, getDateString),
                         [amount |-> last'.arg, time |-> getTimeString,
                          timestamp |-> getTimestamp])
           /\ getTotalOf(ls') = Num(getTotalOf(ls).v + last'.arg.v) ]_vars

\* C4: a second valid amount has been added to today's ledger and saved
C4_Witness ==
    /\ last.op = "addIntake" /\ last.ok /\ validateIntakeAmount(last.arg)
    /\ rowsDate = getDateString
    /\ Len(StoredIntake(ls, getDateString)) = 2
    /\ getTotalOf(ls) = Num(2000)

\* C5: every stored entry has a positive integer amount of at most 5000, addIntake
\* refusing any other amount on the manual and on the quick-add path
C5_StoredAmountsValid ==
    \A d \in Dates : \A k \in 1..Len(StoredIntake(ls, d)) :
        /\ IsNum(StoredIntake(ls, d)[k].amount)
        /\ StoredIntake(ls, d)[k].amount.v \in 1..5000

\* the handlers of the tracker, which leave the goal as it is
TrackerOps == {"addIntake", "deleteIntake", "resetToday", "resume"}

\* C6: with the goal fixed, the goal-reached signal is raised only by the addIntake
\* that takes the day's total from below the goal to the goal or above: not by a
\* later add, a deleteIntake or a visibility-resume refresh
C6_GoalReachedOnCrossingOnly ==
    [][ (last'.op \in TrackerOps /\ now' = now /\ last'.goalReached)
        => /\ last'.op = "addIntake"
           /\ IsNum(last'.arg)
           /\ getTotalOf(ls).v < getCurrentGoal
           /\ getTotalOf(ls).v + last'.arg.v >= getCurrentGoal ]_vars

\* C7: after resetToday getTotal is 0, today's date is no key of the ledger mapping,
\* and the stored goals are what they were
C7_ResetToday ==
    [][ (last'.op = "resetToday" /\ now' = now)
        => /\ getTotalOf(ls') = Num(0)
           /\ getDataOf(ls').tracking[getDateString] = Absent
           /\ getDataOf(ls').dailyGoals = getData.dailyGoals ]_vars

\* C7: today's ledger has been reset with a goal stored and another day's ledger kept
C7_Witness ==
    /\ last.op = "resetToday" /\ last.ok
    /\ getCurrentGoal = 2000
    /\ getData.tracking[getDateString] = Absent
    /\ \E d \in Dates : Len(StoredIntake(ls, d)) > 0

\* C8: after a saveData that returned success, getData returns the state that was
\* saved: the same profile, goals and ledgers
C8_SaveLoadRoundTrip == last.readBack # "differs"

\* C10: deleteIntake removes exactly the entry of the row that was clicked, and
\* every other entry of that ledger stays, in its order, also when the date changed
\* between the rendering of the list and the click
C10_DeleteRemovesSelected ==
    [][ (last'.op = "deleteIntake" /\ now' = now /\ IsNum(last'.arg)
            /\ last'.arg.v < Len(StoredIntake(ls, rowsDate)))
        => StoredIntake(ls', rowsDate)
            = Splice(StoredIntake(ls, rowsDate), last'.arg.v) ]_vars

----------------------------------------------------------------------------
(* Memory-only mode and the recovery from QuotaExceededError *)

\* the text updateTrackingUI wrote into #current-intake when it rendered the rows
currentIntake == totalIntake(rows)

\* C11: with localStorage unavailable for the whole session the tracker works in
\* memory: a valid addIntake on the day the list was rendered shows the total shown
\* before plus its amount (two adds of a and b show a + b), and it measures the
\* progress against the goal calculated in the session
C11_MemoryOnlyMode ==
    [][ (~avail /\ last'.op = "addIntake" /\ now' = now
            /\ validateIntakeAmount(last'.arg)
            /\ rowsDate = getDateString /\ IsNum(currentIntake))
        => /\ totalIntake(rows') = Num(currentIntake.v + last'.arg.v)
           /\ (water > 0 => last'.goal = water) ]_vars

\* C12: a saveData that runs into QuotaExceededError calls clearOldData once, and
\* no exception leaves it, also when every write exceeds the quota
C12_PrunesOnceAndReturns == last.clearOldDataCalls <= 1 /\ ~last.threw

----------------------------------------------------------------------------
(* The operations that load the stored state, on any stored item *)

\* data.tracking[today] on what getData returns: a TypeError if data is null or
\* data.tracking is undefined
ThrowsOnTracking(data) == data = JsonNull \/ "tracking" \notin DOMAIN data

\* data.userProfile = ..., data.dailyGoals = ..., data.dailyGoals?.water on what
\* getData returns: a TypeError if data is null
ThrowsOnProperty(data) == data = JsonNull

StoredItems == {NoItem, Unparseable, JsonNull, ObjectWithoutTracking, StoredEarlier}

\* the arguments the operations are called with
LoadedLedger == [waterIntake |-> <<EntryAt(now)>>]
LoadedProfile == gatherFormData(Form(Num(700), Num(30), Num(30), FALSE))
LoadedGoals == GoalsOf(Form(Num(700), Num(30), Num(30), FALSE))

\* what an operation did: whether it threw, and the value it returned
Outcome(op, threw, value) == [op |-> op, threw |-> threw, value |-> value]

InitLoad ==
    /\ pc = "load"
    /\ params = DefaultParams
    /\ water = 0
    /\ electrolytes = NoElectrolytes
    /\ form = ClearedForm
    /\ avail = TRUE
    /\ quota = Room(StorageQuota)
    /\ tz = 0
    /\ ls \in StoredItems
    /\ lastActive = 0
    /\ now \in 0..MaxNow
    /\ rows = <<>>
    /\ rowsDate = 0
    /\ last = Outcome("init", FALSE, 0)

LoadUnchanged ==
    UNCHANGED <<pc, params, water, electrolytes, form, avail, quota, tz, lastActive,
                now, rows, rowsDate>>

GetTodayTrackingStep ==
    /\ pc = "load"
    /\ last' = IF ThrowsOnTracking(getData) THEN Outcome("getTodayTracking", TRUE, 0)
               ELSE Outcome("getTodayTracking", FALSE, getTodayTracking)
    /\ UNCHANGED ls
    /\ LoadUnchanged

SaveTodayTrackingStep ==
    /\ pc = "load"
    /\ IF ThrowsOnTracking(getData)
       THEN /\ last' = Outcome("saveTodayTracking", TRUE, 0)
            /\ UNCHANGED ls
       ELSE /\ last' = Outcome("saveTodayTracking", FALSE,
                            saveTodayTracking(LoadedLedger).ok)
            /\ ls' = saveTodayTracking(LoadedLedger).item
    /\ LoadUnchanged

ResetTodayTrackingStep ==
    /\ pc = "load"
    /\ IF ThrowsOnTracking(getData)
       THEN /\ last' = Outcome("resetTodayTracking", TRUE, 0)
            /\ UNCHANGED ls
       ELSE /\ last' = Outcome("resetTodayTracking", FALSE, resetTodayTracking.ok)
            /\ ls' = resetTodayTracking.item
    /\ LoadUnchanged

GetCurrentGoalStep ==
    /\ pc = "load"
    /\ last' = IF ThrowsOnProperty(getData) THEN Outcome("getCurrentGoal", TRUE, 0)
               ELSE Outcome("getCurrentGoal", FALSE, getCurrentGoal)
    /\ UNCHANGED ls
    /\ LoadUnchanged

SaveProfileStep ==
    /\ pc = "load"
    /\ IF ThrowsOnProperty(getData)
       THEN /\ last' = Outcome("saveProfile", TRUE, 0)
            /\ UNCHANGED ls
       ELSE /\ last' = Outcome("saveProfile", FALSE, saveProfileOn(ls, LoadedProfile).ok)
            /\ ls' = saveProfileOn(ls, LoadedProfile).item
    /\ LoadUnchanged

SaveGoalsStep ==
    /\ pc = "load"
    /\ IF ThrowsOnProperty(getData)
       THEN /\ last' = Outcome("saveGoals", TRUE, 0)
            /\ UNCHANGED ls
       ELSE /\ last' = Outcome("saveGoals", FALSE, saveGoalsOn(ls, LoadedGoals).ok)
            /\ ls' = saveGoalsOn(ls, LoadedGoals).item
    /\ LoadUnchanged

NextLoad ==
    \/ GetTodayTrackingStep
    \/ SaveTodayTrackingStep
    \/ ResetTodayTrackingStep
    \/ GetCurrentGoalStep
    \/ SaveProfileStep
    \/ SaveGoalsStep

SpecLoad == InitLoad /\ [][NextLoad]_vars

\* an item that is absent, unparseable, or no complete PersistedState
Incomplete(item) ==
    item \in {NoItem, Unparseable, JsonNull} \/ "tracking" \notin DOMAIN item

\* what the operation op returns, and the item it leaves, when the default state
\* {userProfile: {}, dailyGoals: {}, tracking: {}} is loaded
OnDefaultState(op) ==
    CASE op = "getTodayTracking" ->
            [value |-> [waterIntake |-> <<>>], item |-> ls]
      [] op = "getCurrentGoal" -> [value |-> 0, item |-> ls]
      [] op = "saveTodayTracking" ->
            [value |-> TRUE,
             item |-> [getDefaultData EXCEPT !.tracking[getDateString] = LoadedLedger]]
      [] op = "resetTodayTracking" -> [value |-> TRUE, item |-> getDefaultData]
      [] op = "saveProfile" ->
            [value |-> TRUE,
             item |-> [getDefaultData EXCEPT !.userProfile =
                            ProfileOf(Form(Num(700), Num(30), Num(30), FALSE), now)]]
      [] op = "saveGoals" ->
            [value |-> TRUE, item |-> [getDefaultData EXCEPT !.dailyGoals = LoadedGoals]]

\* C13: on an item that is absent, unparseable or no complete PersistedState, each
\* operation that loads the state raises no error and does what it does on the
\* default state
C13_LoadTolerant ==
    [][ Incomplete(ls)
        => /\ ~last'.threw
           /\ last'.value = OnDefaultState(last'.op).value
           /\ ls' = OnDefaultState(last'.op).item ]_vars

----------------------------------------------------------------------------
(* Retention and the date of the ledger *)

\* cutoffString of clearOldData: the date RETENTION_DAYS before today
cutoffString == getDateString - RETENTION_DAYS

\* C14: after a handleCalculate whose saves succeeded, the stored tracking has no
\* ledger of a date before the cutoff date, 30 days before today
C14_RetentionAfterCalculate ==
    [][ (last'.op = "calculate" /\ now' = now /\ last'.ok)
        => \A d \in Dates :
                d < cutoffString => getDataOf(ls').tracking[d] = Absent ]_vars

\* the user's calendar date: the date of the local time
LocalDateString == DateOf(now + tz)

\* C15: in every time zone and at every instant, the ledger an intake is added to
\* is the one of the user's local calendar date
C15_LedgerOfLocalDate ==
    [][ (last'.op = "addIntake" /\ now' = now /\ last'.ok)
        => \A d \in Dates :
                StoredIntake(ls', d) # StoredIntake(ls, d) => d = LocalDateString ]_vars

----------------------------------------------------------------------------
(* The calculate form, the warnings and the report *)

\* C16: after a calculation whose saves succeeded the stored profile has an integer
\* age of 1..120, a weight of 20..300 kg and an integer exercise duration of
\* 0..1440 minutes: a form input outside these ranges reaches neither the
\* calculators nor the store
C16_ProfileWithinRanges ==
    pc = "clicked" /\ last.op = "calculate" /\ last.ok
        => /\ IsNum(getData.userProfile.age)
           /\ getData.userProfile.age.v \in 1..120
           /\ getData.userProfile.weight \in (20 * 10)..(300 * 10)
           /\ getData.userProfile.exerciseDuration \in 0..1440

\* C17: generateReport, whether it saves the document, is refused for want of a
\* goal, or fails, leaves the stored profile, goals and ledgers as they were
C17_ReportReadOnly ==
    [][ last'.op = "report" => ls' = ls /\ getDataOf(ls') = getDataOf(ls) ]_vars

\* C17: a report has been saved from a state with goals and two entries today
C17_Witness ==
    /\ last.op = "report" /\ last.ok
    /\ last.arg = Num(2)
    /\ getCurrentGoal > 0
    /\ Len(StoredIntake(ls, getDateString)) = 2

\* a form the validation has to refuse: the weight or the age not a number or out of
\* range, or gender, activity level or climate not selected
InvalidInput(f) ==
    \/ ~IsNum(f.weight) \/ f.weight.v < 20 * 10 \/ f.weight.v > 300 * 10
    \/ ~IsNum(f.ageFloat) \/ f.ageFloat.v < 1 \/ f.ageFloat.v > 120
    \/ "" \in {f.gender, f.activityLevel, f.climate}

\* C18: Calculate on an invalid form saves nothing and changes nothing: the stored
\* item, the results shown and the tracker are as before
C18_InvalidFormChangesNothing ==
    [][ (pc = "form" /\ InvalidInput(form))
        => /\ ls' = ls
           /\ <<water', electrolytes', rows', rowsDate', last'>>
                = <<water, electrolytes, rows, rowsDate, last>> ]_vars

\* C18: Calculate has been clicked on an invalid form over a stored state
C18_Witness ==
    /\ pc = "clicked" /\ InvalidInput(form)
    /\ ls = StoredEarlier
    /\ last.op = "init"

\* the warnings whose rule holds for the parameters p, in the fixed order
ExpectedWarnings(p) ==
    SelectSeq(<<"activity-mismatch", "child-supervision", "multi-condition">>,
        LAMBDA w :
            CASE w = "activity-mismatch" ->
                    p.activityLevel = "sedentary" /\ p.exerciseDuration > 60
              [] w = "child-supervision" ->
                    IsNum(p.age) /\ p.age.v < 12 /\ p.exerciseIntensity = "high"
              [] w = "multi-condition" ->
                    Cardinality({ x \in {"pregnant", "breastfeeding", "illness",
                                         "kidneyDisease"} : p[x] }) >= 2)

\* C19: validateConsistency returns exactly the warnings whose rule holds, in the
\* order activity-mismatch, child-supervision, multi-condition
C19_ConsistencyWarnings ==
    pc = "clicked" /\ last.op = "calculate"
        => last.warnings = ExpectedWarnings(gatherFormData(form))

\* C19: all three warnings at once
C19_Witness ==
    /\ pc = "clicked" /\ last.op = "calculate"
    /\ last.warnings = <<"activity-mismatch", "child-supervision", "multi-condition">>

\* C20: Calculate on a valid form computes and saves the profile and the goals,
\* whatever warnings validateConsistency returns, and the goals saved are those of
\* the calculators
C20_WarningsNeverBlock ==
    pc = "clicked" /\ ~InvalidInput(form)
        => /\ last.op = "calculate" /\ last.ok
           /\ getData.dailyGoals = GoalsOf(form)
           /\ water = GoalsOf(form).water
           /\ getData.userProfile = ProfileOf(form, now)

\* C20: a calculation saved with three warnings
C20_Witness ==
    /\ pc = "clicked" /\ ~InvalidInput(form)
    /\ Len(last.warnings) = 3
    /\ last.ok
    /\ getData.dailyGoals = GoalsOf(form)

----------------------------------------------------------------------------
(* Calculator.generateRecommendations *)

\* One recommendation: its type, the sentence it carries (named by its topic) and
\* the numbers interpolated into the sentence.
Recommendation(type, topic, numbers) ==
    [type |-> type, topic |-> topic, numbers |-> numbers]

\* recommendations.push(x) when the condition holds
PushIf(condition, recommendations, x) ==
    IF condition THEN Append(recommendations, x) ELSE recommendations

\* faulty: the high water warning only above DANGER_WATER
RecommendationsAboveDangerOnly(p, waterRequirement, e) ==
    LET r0 == <<Recommendation("info", "distribution",
                    <<waterRequirement, MathRound(waterRequirement, 8)>>)>>
        r1 == PushIf(waterRequirement > DANGER_WATER, r0,
                    Recommendation("warning", "high-water", <<>>))
        r2 == PushIf(p.kidneyDisease, r1,
                    Recommendation("warning", "kidney-disease", <<>>))
        r3 == PushIf(p.exerciseDuration > 60, r2,
                    Recommendation("info", "long-exercise", <<>>))
        r4 == PushIf(p.climate = "hot" \/ p.climate = "very-hot", r3,
                    Recommendation("warning", "hot-climate", <<>>))
        r5 == PushIf(e.sodium > 3000, r4,
                    Recommendation("info", "high-sodium", <<>>))
        r6 == Append(r5, Recommendation("info", "potassium", <<e.potassium>>))
    IN  Append(r6, Recommendation("info", "magnesium", <<e.magnesium>>))

generateRecommendations(p, waterRequirement, e) ==
    LET \* water distribution
        r0 == <<Recommendation("info", "distribution",
                    <<waterRequirement, MathRound(waterRequirement, 8)>>)>>
        \* high water warning
        r1 == PushIf(waterRequirement >= DANGER_WATER, r0,
                    Recommendation("warning", "high-water", <<>>))
        \* kidney disease warning
        r2 == PushIf(p.kidneyDisease, r1,
                    Recommendation("warning", "kidney-disease", <<>>))
        \* exercise-specific advice
        r3 == PushIf(p.exerciseDuration > 60, r2,
                    Recommendation("info", "long-exercise", <<>>))
        \* climate advice
        r4 == PushIf(p.climate = "hot" \/ p.climate = "very-hot", r3,
                    Recommendation("warning", "hot-climate", <<>>))
        \* sodium advice
        r5 == PushIf(e.sodium > 3000, r4,
                    Recommendation("info", "high-sodium", <<>>))
        \* potassium-rich foods
        r6 == Append(r5, Recommendation("info", "potassium", <<e.potassium>>))
        \* magnesium sources
    IN  Append(r6, Recommendation("info", "magnesium", <<e.magnesium>>))

\* profiles whose requirements fall on both sides of each condition: 100 kg with 180
\* minutes at medium intensity needs 5000 ml exactly, 60 minutes at medium
\* intensity 3000 mg of sodium exactly
RecommendationInputs ==
    { [DefaultParams EXCEPT !.weight = w, !.exerciseDuration = m,
            !.exerciseIntensity = i, !.climate = c, !.kidneyDisease = k] :
        w \in {700, 1000, 3000}, m \in {0, 60, 61, 180}, i \in Intensities,
        c \in Climates \cup {Unrecognized}, k \in BOOLEAN }

InitRecommendations ==
    /\ pc = "input"
    /\ params \in RecommendationInputs
    /\ water = 0
    /\ electrolytes = NoElectrolytes
    /\ AppInit
    /\ avail
    /\ quota = Room(StorageQuota)

\* lines 1192-1194 of handleCalculate: the requirements, then their recommendations
RecommendStep ==
    /\ pc = "input"
    /\ LET waterRequirement == calculateWater(params)
           e == calculateElectrolytes(params)
       IN  /\ water' = waterRequirement
           /\ electrolytes' = e
           /\ last' = [op |-> "generateRecommendations",
                       recommendations |->
                           generateRecommendations(params, waterRequirement, e)]
    /\ pc' = "done"
    /\ UNCHANGED <<params, form, avail, quota, tz, ls, lastActive, now, rows, rowsDate>>

SpecRecommendations == InitRecommendations /\ [][RecommendStep]_vars

\* the conditional recommendations in the order of the specification
ConditionalTopics ==
    <<"high-water", "kidney-disease", "long-exercise", "hot-climate", "high-sodium">>

ConditionHolds(topic) ==
    CASE topic = "high-water" -> water >= 5000
      [] topic = "kidney-disease" -> params.kidneyDisease
      [] topic = "long-exercise" -> params.exerciseDuration > 60
      [] topic = "hot-climate" -> params.climate \in {"hot", "very-hot"}
      [] topic = "high-sodium" -> electrolytes.sodium > 3000

\* C21: the list starts with the distribution tip and ends with the potassium tip
\* then the magnesium tip; between them stand, in the fixed order high water, kidney
\* disease, long exercise, hot climate, high sodium, exactly the recommendations
\* whose condition holds; every element is of type info or warning
C21_RecommendationOrder ==
    pc = "done" =>
        LET r == last.recommendations
            expected == <<"distribution">> \o SelectSeq(ConditionalTopics, ConditionHolds)
                            \o <<"potassium", "magnesium">>
        IN  /\ [i \in 1 .. Len(r) |-> r[i].topic] = expected
            /\ \A i \in 1 .. Len(r) : r[i].type \in {"info", "warning"}

\* C21: 100 kg and three hours of medium exercise: exactly 5000 ml, so the list is the
\* distribution tip, the high water warning, the exercise and sodium tips and the
\* two closing tips
C21_Witness ==
    /\ pc = "done"
    /\ water = 5000
    /\ ~params.kidneyDisease
    /\ Len(last.recommendations) = 6
    /\ last.recommendations[2].topic = "high-water"

----------------------------------------------------------------------------
(* The lookup tables on values they do not hold *)

\* A name that every object literal inherits from Object.prototype: for such a key
\* table[key] is a function, which is truthy, so `table[key] || 1.0` is the function
\* and not the default.
InheritedName == "constructor"

\* does table[key] || default give something that is not a number?
LooksUpFunction(key) == key = InheritedName

\* calculateWater on any string in the four select fields. A function in place of
\* a multiplier or an addend turns waterRequirement into NaN, and Math.min,
\* Math.max and Math.round pass NaN on.
calculateWaterOf(p) ==
    IF \/ LooksUpFunction(p.activityLevel)
       \/ LooksUpFunction(p.exerciseIntensity)
       \/ LooksUpFunction(p.climate)
       \/ LooksUpFunction(p.altitude)
    THEN NaN
    ELSE Num(calculateWater(p))

\* calculateElectrolytes on any string in the two select fields it reads: sodium and
\* potassium take the looked-up values, magnesium and calcium do not
calculateElectrolytesOf(p) ==
    LET e == calculateElectrolytes(p)
        lost == LooksUpFunction(p.exerciseIntensity) \/ LooksUpFunction(p.climate)
    IN  [sodium |-> IF lost THEN NaN ELSE Num(e.sodium),
         potassium |-> IF lost THEN NaN ELSE Num(e.potassium),
         magnesium |-> Num(e.magnesium),
         calcium |-> Num(e.calcium)]

\* the values of a select field: those of the table and two others
Keys(table) == table \cup {Unrecognized, InheritedName}

LookupInputs ==
    { [DefaultParams EXCEPT !.weight = w, !.activityLevel = a,
            !.exerciseDuration = m, !.exerciseIntensity = i, !.climate = c,
            !.altitude = h, !.kidneyDisease = k] :
        w \in {700, 1361}, a \in Keys(ActivityLevels), m \in {0, 61, 1440},
        i \in Keys(Intensities), c \in Keys(Climates), h \in Keys(Altitudes),
        k \in BOOLEAN }

InitLookups ==
    /\ pc = "input"
    /\ params \in LookupInputs
    /\ water = Num(0)
    /\ electrolytes = [k \in DOMAIN NoElectrolytes |-> Num(0)]
    /\ AppInit
    /\ avail
    /\ quota = Room(StorageQuota)

\* lines 1192-1193 of handleCalculate
LookupStep ==
    /\ pc = "input"
    /\ water' = calculateWaterOf(params)
    /\ electrolytes' = calculateElectrolytesOf(params)
    /\ pc' = "done"
    /\ UNCHANGED params
    /\ AppUnchanged

SpecLookups == InitLookups /\ [][LookupStep]_vars

\* the profile with every select value outside its table replaced by the neutral one
Neutral(p) ==
    [p EXCEPT
        !.activityLevel = IF @ \in ActivityLevels THEN @ ELSE "sedentary",
        !.exerciseIntensity = IF @ \in Intensities THEN @ ELSE "medium",
        !.climate = IF @ \in Climates THEN @ ELSE "moderate",
        !.altitude = IF @ \in Altitudes THEN @ ELSE "sea-level"]

\* C22: both calculators return numbers on every profile, and a profile with an
\* unknown activity level, exercise intensity, climate or altitude gets the results
\* of the same profile with sedentary, medium, moderate or sea-level in its place
C22_UnknownIsNeutral ==
    pc = "done" =>
        /\ IsNum(water)
        /\ \A k \in DOMAIN electrolytes : IsNum(electrolytes[k])
        /\ water = Num(calculateWater(Neutral(params)))
        /\ \A k \in DOMAIN electrolytes :
                electrolytes[k] = Num(calculateElectrolytes(Neutral(params))[k])

----------------------------------------------------------------------------
(* C23: the electrolyte formula *)

\* The reference values of sodium and potassium before the cap and the rounding, as
\* numerators over 300: (base + minutes / 60 * perHour * sweat) * climate, with sweat
\* 0.5, 1 or 1.5 and climate 1, 1.15 or 1.3.
ReferenceUnits(base, perHour, p) ==
    LET sweat2 == CASE p.exerciseIntensity = "low" -> 1
                    [] p.exerciseIntensity = "high" -> 3
                    [] OTHER -> 2
        climate100 == CASE p.climate = "hot" -> 115
                        [] p.climate = "very-hot" -> 130
                        [] OTHER -> 100
    IN  (3 * base + (perHour \div 40) * p.exerciseDuration * sweat2) * climate100

\* is n the integer nearest to units / 300, halves upwards?
RoundsTo(units, n) == 2 * 300 * n - 300 <= 2 * units /\ 2 * units < 2 * 300 * n + 300

MinOf(a, b) == IF a < b THEN a ELSE b

\* C23: sodium is round(min(4900, (2000 + minutes / 60 * 1000 * sweat) * climate)),
\* potassium is round(min(5900, (base + minutes / 60 * 200 * sweat) * climate)) with
\* base 3400 for male and 2600 for female; magnesium is 420 for male and 320 for
\* female and calcium is 1200 from the age of 65 on and 1000 below, whatever the
\* exercise and the climate
C23_ElectrolyteFormula ==
    pc = "done" =>
        /\ RoundsTo(MinOf(4900 * 300, ReferenceUnits(2000, 1000, params)),
                    electrolytes.sodium)
        /\ params.gender = "male" =>
            /\ RoundsTo(MinOf(5900 * 300, ReferenceUnits(3400, 200, params)),
                        electrolytes.potassium)
            /\ electrolytes.magnesium = 420
        /\ params.gender = "female" =>
            /\ RoundsTo(MinOf(5900 * 300, ReferenceUnits(2600, 200, params)),
                        electrolytes.potassium)
            /\ electrolytes.magnesium = 320
        /\ params.age \in {Num(65), Num(120)} => electrolytes.calcium = 1200
        /\ params.age \in {Num(1), Num(11), Num(12), Num(64)} => electrolytes.calcium = 1000

\* C23: a man of 65 after 45 minutes of high intensity in a hot climate:
\* (2000 + 1125) * 1.15 = 3593.75 and (3400 + 225) * 1.15 = 4168.75
C23_Witness ==
    /\ pc = "done"
    /\ params.gender = "male" /\ params.age = Num(65)
    /\ params.exerciseDuration = 45 /\ params.exerciseIntensity = "high"
    /\ params.climate = "hot"
    /\ electrolytes = [sodium |-> 3594, potassium |-> 4169, magnesium |-> 420,
                       calcium |-> 1200]

----------------------------------------------------------------------------
(* C24, C25: the life of a day's ledger *)

\* is d a key of the stored ledger mapping?
HasLedger(item, d) == getDataOf(item).tracking[d] # Absent

\* C24: deleting the only remaining entry of today's ledger leaves today's key in the
\* mapping with an empty entry list and a total of 0; a key leaves the mapping by
\* resetToday only, and then it is today's
C24_DrainedLedgerStays ==
    [][ /\ (last'.op = "deleteIntake" /\ now' = now /\ last'.arg = Num(0)
                /\ Len(StoredIntake(ls, getDateString)) = 1)
            => /\ HasLedger(ls', getDateString)
               /\ StoredIntake(ls', getDateString) = <<>>
               /\ getTotalOf(ls') = Num(0)
        /\ \A d \in Dates :
            HasLedger(ls, d) /\ ~HasLedger(ls', d)
                => last'.op = "resetToday" /\ d = getDateString ]_vars

\* C24: today's ledger has been drained by a deletion and is stored empty
C24_Witness ==
    /\ now = 0
    /\ last.op = "deleteIntake" /\ last.arg = Num(0) /\ last.ok
    /\ HasLedger(ls, getDateString)
    /\ StoredIntake(ls, getDateString) = <<>>
    /\ rows = <<>>

\* C25: a date enters the ledger mapping only by an addIntake on that date, never by
\* deleteIntake, a calculation, a resume or a change of the day; a date leaves the
\* mapping only by resetToday on that date or by the retention sweep, which takes
\* the dates more than 30 days back
C25_LedgerLifecycle ==
    [][ \A d \in Dates :
            /\ ~HasLedger(ls, d) /\ HasLedger(ls', d)
                => last'.op = "addIntake" /\ now' = now /\ d = getDateString
            /\ HasLedger(ls, d) /\ ~HasLedger(ls', d)
                => \/ last'.op = "resetToday" /\ now' = now /\ d = getDateString
                   \/ last'.clearOldDataCalls > 0 /\ d < getDateString - 30 ]_vars

----------------------------------------------------------------------------
(* C26: the change of the day *)

\* C26: when the user's calendar date changes, the total read next is 0 and every
\* stored ledger keeps its entries; the rollover check of a visibility resume
\* leaves the stored profile, goals and ledgers and the displayed requirements as
\* they were
C26_LazyRollover ==
    [][ /\ LocalDateString' # LocalDateString
            => /\ (getTotalOf(ls))' = Num(0)
               /\ \A d \in Dates : StoredIntake(ls', d) = StoredIntake(ls, d)
        /\ (last'.op = "resume" /\ now' = now)
            => /\ getDataOf(ls') = getDataOf(ls)
               /\ water' = water /\ electrolytes' = electrolytes ]_vars

----------------------------------------------------------------------------
(* C27: a save that fails *)

\* the handlers that call saveData once
SavesOnce == {"addIntake", "deleteIntake", "resetToday"}

\* C27: when the saveData of a handler returns false, the stored profile, goals and
\* ledgers are what they were before the call
C27_FailedSaveChangesNothing ==
    [][ (last'.op \in SavesOnce /\ now' = now /\ ~last'.ok /\ ~last'.threw)
        => getDataOf(ls') = getDataOf(ls) ]_vars

----------------------------------------------------------------------------
(* C28: the two writes of handleCalculate *)

\* a first visit on an origin that is nearly full: the document fits with a profile
\* but with neither goals nor an entry
InitNearlyFull ==
    /\ pc = "app"
    /\ params = DefaultParams
    /\ water = 0
    /\ electrolytes = NoElectrolytes
    /\ avail = TRUE
    /\ quota = NoRoomForGoals
    /\ tz = 0
    /\ ls = NoItem
    /\ AppStarted

SpecNearlyFull == InitNearlyFull /\ [][Next]_vars

\* C28: in every state the stored profile and goals are both empty, or the stored
\* goals are the requirements calculateWater and calculateElectrolytes give for the
\* stored profile
C28_GoalsMatchProfile ==
    LET profile == getData.userProfile
        goals == getData.dailyGoals
    IN  \/ profile = EmptyObject /\ goals = EmptyObject
        \/ /\ profile # EmptyObject
           /\ goals # EmptyObject
           /\ goals = [water |-> calculateWater(profile)] @@ calculateElectrolytes(profile)

----------------------------------------------------------------------------
(* C29: what the operations leave alone *)

StoredProfile(item) == getDataOf(item).userProfile
StoredGoals(item) == getDataOf(item).dailyGoals
StoredLedger(item, d) == getDataOf(item).tracking[d]

\* the step is the handler `op`
IsStep(op) == last'.op = op /\ now' = now

Swept(d) ==
    /\ last'.clearOldDataCalls > 0
    /\ d < getDateString - 30
    /\ StoredLedger(ls', d) = Absent

----------------------------------------------------------------------------
(* C30: the progress shown *)

\* parseInt(btn.dataset.amount) for any data-amount: also a negative number, and
\* NaN for a text that does not start with a number
AnyQuickAmounts == QuickAmounts \cup {Num(0 - 250), NaN}

\* the click handler of a .quick-btn, whatever its data-amount
AnyQuickAddClick ==
    /\ pc = "app"
    /\ \E amount \in AnyQuickAmounts : addIntake(amount)

\* a first visit with localStorage available, and a tracker with such buttons
InitQuickAdd ==
    /\ pc = "app"
    /\ params = DefaultParams
    /\ water = 0
    /\ electrolytes = NoElectrolytes
    /\ avail = TRUE
    /\ quota = Room(StorageQuota)
    /\ tz = 0
    /\ ls = NoItem
    /\ AppStarted

NextQuickAdd ==
    \/ HandleCalculate
    \/ AddIntakeClick
    \/ AnyQuickAddClick
    \/ DeleteClick
    \/ ResetClick

SpecQuickAdd == InitQuickAdd /\ [][NextQuickAdd]_vars

\* the handler got to updateTrackingUI
ProgressShown == "progress" \in DOMAIN last

\* C30: the percentage shown with the total and the goal of updateTrackingUI is
\* min(total / goal * 100, 100) when the goal is positive and 0 when it is 0; it lies
\* between 0 and 100, is 100 exactly when total >= goal > 0, and without a goal no
\* goal-reached signal is raised, whatever has been logged
C30_ProgressPercentage ==
    ProgressShown =>
        LET total == currentIntake.v
            goal == last.goal
            shown == last.progress
        IN  /\ shown # NaN
            /\ goal > 0 =>
                shown.n * goal
                    = shown.d * (IF total * 100 < 100 * goal THEN total * 100
                                 ELSE 100 * goal)
            /\ goal = 0 => shown.n = 0
            /\ 0 <= shown.n /\ shown.n <= 100 * shown.d
            /\ shown.n = 100 * shown.d <=> (goal > 0 /\ total >= goal)
            /\ goal = 0 => ~last.goalReached

====
